---------------------------- MODULE Spec2Model ----------------------------
(***************************************************************************)
(* A model of two parts of LOOS:                                           *)
(*   - the XDR codec of src/src/xdr.hpp (XDRReader, XDRWriter): scalars    *)
(*     under SpecXDR, opaque blocks and strings under SpecXDRBlock;        *)
(*   - the Amber parmtop parser of src/amber.cpp: Amber::parseFormat       *)
(*     alone under SpecFormat; Amber::read on whole files under Spec, on   *)
(*     files of residue sections under SpecResidues and on files of bond   *)
(*     sections under SpecBonds.                                           *)
(* Byte strings and text are sequences; a character is a one-character     *)
(* string.                                                                 *)
(***************************************************************************)
EXTENDS Integers, Sequences, FiniteSets, TLC

VARIABLES
  \* ---- XDR codec (src/src/xdr.hpp)
  little,      \* the host stores the low-order byte first
  r_swab,      \* XDRReader::need_to_swab
  w_swab,      \* XDRWriter::need_to_swab
  wire,        \* the bytes of the stream, as written so far
  cap,         \* the number of bytes the device behind the ostream accepts
  wfail,       \* the ostream's failbit
  wbad,        \* the ostream's badbit
  rpos,        \* the istream's get position
  rfail,       \* the istream's failbit
  lastW,       \* the last write call: its arguments and what it returned
  lastR,       \* the last read call since the last write: arguments and result
  halted,      \* the process was aborted (a read wrote past its object)
  \* ---- Amber::parseFormat called on one line (src/amber.cpp)
  fline,       \* the line reader.getNext() delivers
  fcaller,     \* the caller's expected_types and where
  fres,        \* what parseFormat did: returned, threw, or nothing yet
  \* ---- Amber::read (src/amber.cpp)
  amber,       \* the Amber object: its members, and where read() is
  section,     \* the line read() handled last, and the size of its block
  decoded      \* the pairs of values the bond loops have decoded so far

xdrVars == <<little, r_swab, w_swab, wire, cap, wfail, wbad, rpos, rfail, lastW, lastR, halted>>

fmtVars == <<fline, fcaller, fres>>

amberVars == <<amber, section, decoded>>

vars == <<xdrVars, fmtVars, amberVars>>

-----------------------------------------------------------------------------
(* Bounds of the model *)

\* the device behind the ostream accepts this many bytes, then fails: under
\* SpecXDR (scalars) and under SpecXDRBlock (byte blocks and strings)
MaxScalarWire == 4
MaxWire == 8
\* the longest byte block handed to the opaque operations
MaxOpaque == 4
\* the longest string handed to the string operations
MaxStr == 2

\* the longest format spec, between the parentheses, built from SpecAlphabet
MaxSpecLen == 5
\* the most elements of an array handed to the array write
MaxArray == 2
\* the most atoms a POINTERS block declares
MaxAtoms == 3
\* the most residues a POINTERS block declares
MaxRes == 3
\* the most bonds a POINTERS block declares for a section
MaxBondCount == 2
\* the most title blocks of a file
MaxTitle == 1

\* the values a byte of input takes: NUL, and a non-zero byte
ByteVals == {0, 1}

\* sizeof(block_type), block_type being unsigned int
BlockSize == 4

\* sizeof(T) of the scalar types read and written: char, short, int/float,
\* and an 8-byte type going through the generic template
ScalarSizes == {1, 2, 4, 8}

-----------------------------------------------------------------------------
(* Sequences *)

Reverse(s) == [i \in 1..Len(s) |-> s[Len(s) + 1 - i]]

Min(a, b) == IF a <= b THEN a ELSE b

\* all sequences over S of length n
RECURSIVE SeqsOfLen(_, _)
SeqsOfLen(S, n) ==
  IF n = 0 THEN {<<>>}
  ELSE {Append(s, x) : s \in SeqsOfLen(S, n - 1), x \in S}

SeqsUpTo(S, n) == UNION {SeqsOfLen(S, k) : k \in 0..n}

Zeros(n) == [i \in 1..n |-> 0]

Pow256(k) == IF k = 0 THEN 1 ELSE IF k = 1 THEN 256 ELSE IF k = 2 THEN 65536 ELSE 16777216

-----------------------------------------------------------------------------
(* Object representation of an unsigned value on the host *)

\* the value of a byte sequence that holds the low-order byte first
RECURSIVE LEValue(_)
LEValue(b) == IF b = <<>> THEN 0 ELSE Head(b) + 256 * LEValue(Tail(b))

LEBytes(v, n) == [i \in 1..n |-> (v \div Pow256(i - 1)) % 256]

\* the bytes of an n-byte object holding v, in address order
HostBytes(v, n, le) == IF le THEN LEBytes(v, n) ELSE Reverse(LEBytes(v, n))

\* the value of the object whose bytes, in address order, are b
HostValue(b, le) == IF le THEN LEValue(b) ELSE LEValue(Reverse(b))

\* swab<T>(x): the object with its bytes in the opposite order
swab(b) == Reverse(b)

\* the constructors' test: the first byte of int 0x1234 is 0x34
ProbeIsLittle(le) == HostBytes(4660, 4, le)[1] = 52


-----------------------------------------------------------------------------
(* The streams under the codec *)

\* std::istream::read(p, n) on the bytes w: nothing is read once the stream
\* has failed; a read past the end takes what is there and sets failbit
istream_read(w, is, n) ==
  IF is.fail THEN [got |-> <<>>, pos |-> is.pos, fail |-> TRUE]
  ELSE LET k == Min(n, Len(w) - is.pos)
       IN [got |-> SubSeq(w, is.pos + 1, is.pos + k), pos |-> is.pos + k, fail |-> k < n]

\* std::ostream::write(p, n): nothing is written when the stream is not good
\* (failbit is set); the device takes os.cap bytes, a write it cuts short
\* sets badbit
ostream_write(os, bytes) ==
  IF os.fail \/ os.bad THEN [os EXCEPT !.fail = TRUE]
  ELSE LET k == Min(Len(bytes), os.cap - Len(os.wire))
       IN [os EXCEPT !.wire = os.wire \o SubSeq(bytes, 1, k), !.bad = k < Len(bytes)]

\* stream->fail(): failbit or badbit
stream_fail(s) == s.fail \/ s.bad

-----------------------------------------------------------------------------
(* XDRReader *)

\* the constructor: need_to_swab(false), set when the probe finds the low byte first
XDRReader_ctor(le) == ProbeIsLittle(le)

\* the value of an object some of whose bytes were never assigned
Indeterminate == -1

\* read<T>(T* p): when the stream fills fewer than sizeof(T) bytes of result,
\* *p is given an indeterminate value
XDRReader_read(w, is, swabflag, le, size) ==
  IF size > BlockSize
    THEN [thrown |-> TRUE, pos |-> is.pos, fail |-> is.fail, ret |-> 0, val |-> 0, overrun |-> 0]
    ELSE LET r == istream_read(w, is, BlockSize)
             k == Len(r.got)
             result == SubSeq(r.got, 1, Min(size, k))
             res2 == IF size > 1 /\ swabflag THEN swab(result) ELSE result
         IN [thrown |-> FALSE, pos |-> r.pos, fail |-> r.fail,
             ret |-> IF r.fail THEN 0 ELSE 1,
             val |-> IF k < size THEN Indeterminate ELSE HostValue(res2, le),
             overrun |-> IF k > size THEN k - size ELSE 0]

\* the padding after n opaque bytes, as the reader computes it
ReaderRndup(n) ==
  LET rndup == n % BlockSize
  IN IF rndup > 0 THEN BlockSize - rndup ELSE rndup

\* XDRReader_read_opaque without the test of stream->fail() after the payload
XDRReader_read_opaque_NoFailTest(w, is, n) ==
  IF n = 0 THEN [pos |-> is.pos, fail |-> is.fail, ret |-> 1, got |-> <<>>]
  ELSE LET r == istream_read(w, is, n)
           q == IF ReaderRndup(n) # 0
                  THEN istream_read(w, [pos |-> r.pos, fail |-> r.fail], ReaderRndup(n))
                  ELSE r
       IN [pos |-> q.pos, fail |-> q.fail, ret |-> n, got |-> r.got]

\* read(char* p, uint n)
XDRReader_read_opaque(w, is, n) ==
  IF n = 0 THEN [pos |-> is.pos, fail |-> is.fail, ret |-> 1, got |-> <<>>]
  ELSE LET r == istream_read(w, is, n)
       IN IF r.fail
            THEN [pos |-> r.pos, fail |-> TRUE, ret |-> 0, got |-> r.got]
            ELSE LET q == IF ReaderRndup(n) # 0
                            THEN istream_read(w, [pos |-> r.pos, fail |-> r.fail], ReaderRndup(n))
                            ELSE r
                 IN [pos |-> q.pos, fail |-> q.fail, ret |-> n, got |-> r.got]

\* strlen, and the characters std::string(const char*) takes: those before
\* the first NUL
RECURSIVE strlen(_)
strlen(p) == IF p = <<>> \/ Head(p) = 0 THEN 0 ELSE 1 + strlen(Tail(p))

c_str(s) == Append(s, 0)

\* read(boost::shared_ptr<char>&): set tells whether p was assigned; buf is
\* the new char[n+1] after s[n] = '\0' (bytes the stream did not fill are absent)
XDRReader_read_ptr(w, is, swabflag, le) ==
  LET h == XDRReader_read(w, is, swabflag, le, BlockSize)
      n == h.val
  IN IF h.ret = 0
       THEN [pos |-> h.pos, fail |-> h.fail, ret |-> 0, set |-> FALSE, buf |-> <<>>]
       ELSE LET o == XDRReader_read_opaque(w, [pos |-> h.pos, fail |-> h.fail], n)
            IN [pos |-> o.pos, fail |-> o.fail, ret |-> o.ret, set |-> TRUE,
                buf |-> Append(o.got, 0)]

\* read(std::string& s): set tells whether s was assigned
XDRReader_read_string(w, is, swabflag, le) ==
  LET r == XDRReader_read_ptr(w, is, swabflag, le)
  IN IF r.ret = 0
       THEN [pos |-> r.pos, fail |-> r.fail, ret |-> 0, set |-> FALSE, str |-> <<>>]
       ELSE [pos |-> r.pos, fail |-> r.fail, ret |-> r.ret, set |-> TRUE,
             str |-> SubSeq(r.buf, 1, strlen(r.buf))]

-----------------------------------------------------------------------------
(* XDRWriter *)

\* the constructors XDRWriter() and XDRWriter(std::ostream*): need_to_swab has
\* no initializer and is assigned only when the probe finds the low byte
\* first; otherwise it keeps an indeterminate value
XDRWriter_ctor(le) == IF ProbeIsLittle(le) THEN {TRUE} ELSE BOOLEAN

\* write<T>(const T& p): g stands for the bytes of u that *up = p leaves
\* unassigned
XDRWriter_write(os, swabflag, le, size, v, g) ==
  IF size > BlockSize
    THEN [thrown |-> TRUE, os |-> os, ret |-> 0]
    ELSE LET u == HostBytes(v, size, le) \o g
             u2 == IF size > 1 /\ swabflag THEN swab(u) ELSE u
             o == ostream_write(os, u2)
         IN [thrown |-> FALSE, os |-> o, ret |-> IF o.bad THEN 0 ELSE 1]

\* write(const double&): the eight bytes of the value, swapped as a whole when
\* the flag is set; the result is taken from fail(), not from bad()
DoubleSize == 8

XDRWriter_write_double(os, swabflag, le, v) ==
  LET u == HostBytes(v, DoubleSize, le)
      u2 == IF swabflag THEN swab(u) ELSE u
      o == ostream_write(os, u2)
  IN [thrown |-> FALSE, os |-> o, ret |-> IF stream_fail(o) THEN 0 ELSE 1]

\* write(const T* ary, const uint n): the loop stops at the first element
\* whose write returns 0; elements from position i (counted from 0)
RECURSIVE XDRWriter_write_array(_, _, _, _, _, _, _)
XDRWriter_write_array(os, swabflag, le, size, ary, g, i) ==
  IF i >= Len(ary) THEN [thrown |-> FALSE, os |-> os, ret |-> i]
  ELSE LET r == XDRWriter_write(os, swabflag, le, size, ary[i + 1], g)
       IN IF r.thrown THEN [thrown |-> TRUE, os |-> r.os, ret |-> 0]
          ELSE IF r.ret = 0 THEN [thrown |-> FALSE, os |-> r.os, ret |-> i]
          ELSE XDRWriter_write_array(r.os, swabflag, le, size, ary, g, i + 1)

\* WriterRndup without the test rndup > 0
WriterRndup_NoZeroTest(n) == BlockSize - (n % BlockSize)

\* the padding after n opaque bytes, as the writer computes it
WriterRndup(n) ==
  LET rndup == n % BlockSize
  IN IF rndup > 0 THEN BlockSize - rndup ELSE rndup

\* write(const char* p, const uint n), p holding n bytes
XDRWriter_write_opaque(os, p, n) ==
  LET buf == Zeros(BlockSize)
      a == ostream_write(os, SubSeq(p, 1, n))
      b == IF ~stream_fail(a)
             THEN ostream_write(a, SubSeq(buf, 1, WriterRndup(n)))
             ELSE a
  IN [os |-> b, ret |-> IF stream_fail(b) THEN 0 ELSE n]

\* write(const char* p): p is NUL-terminated
XDRWriter_write_cstr(os, swabflag, le, p) ==
  LET n == strlen(p)
      h == XDRWriter_write(os, swabflag, le, BlockSize, n, <<>>)
  IN XDRWriter_write_opaque(h.os, p, n)

\* write(const std::string& s)
XDRWriter_write_string(os, swabflag, le, s) ==
  XDRWriter_write_cstr(os, swabflag, le, c_str(s))

-----------------------------------------------------------------------------
(* Amber::parseFormat (src/amber.cpp).  Text is a sequence of characters.   *)

DigitChars == {"0", "1", "2", "3", "4", "5", "6", "7", "8", "9"}

DigitVal(c) ==
  CASE c = "0" -> 0 [] c = "1" -> 1 [] c = "2" -> 2 [] c = "3" -> 3 [] c = "4" -> 4
    [] c = "5" -> 5 [] c = "6" -> 6 [] c = "7" -> 7 [] c = "8" -> 8 [] c = "9" -> 9

IsSpace(c) == c \in {" ", "\t"}

\* the format-declaration marker
FormatMarker == <<"%", "F", "O", "R", "M", "A", "T">>

\* line.compare(0, 7, "%FORMAT") != 0
LacksMarker(line) == SubSeq(line, 1, Min(7, Len(line))) # FormatMarker

\* boost::tokenizer with char_separator(seps): the maximal runs of characters
\* that are not separators, in order; empty tokens are dropped
RECURSIVE Tokenize(_, _, _)
Tokenize(s, seps, cur) ==
  IF s = <<>> THEN (IF cur = <<>> THEN <<>> ELSE <<cur>>)
  ELSE IF Head(s) \in seps
         THEN (IF cur = <<>> THEN <<>> ELSE <<cur>>) \o Tokenize(Tail(s), seps, <<>>)
         ELSE Tokenize(Tail(s), seps, Append(cur, Head(s)))

\* an std::istringstream: its buffer, its get position (from 1), its failbit
IssOpen(buf) == [buf |-> buf, pos |-> 1, fail |-> FALSE]

\* iss.clear(); iss.seekg(0);
IssRewind(st) == [st EXCEPT !.pos = 1, !.fail = FALSE]

RECURSIVE SkipWs(_, _)
SkipWs(buf, pos) ==
  IF pos <= Len(buf) /\ IsSpace(buf[pos]) THEN SkipWs(buf, pos + 1) ELSE pos

\* the end of the run of digits that starts at pos
RECURSIVE DigitsEnd(_, _)
DigitsEnd(buf, pos) ==
  IF pos <= Len(buf) /\ buf[pos] \in DigitChars THEN DigitsEnd(buf, pos + 1) ELSE pos

RECURSIVE Decimal(_, _, _, _)
Decimal(buf, pos, end, acc) ==
  IF pos >= end THEN acc ELSE Decimal(buf, pos + 1, end, 10 * acc + DigitVal(buf[pos]))

\* iss >> c, c a char: skips white space and takes one character; fails at
\* the end of the buffer and leaves c alone
ExtractChar(st) ==
  IF st.fail THEN [st |-> st, stored |-> FALSE, val |-> "?"]
  ELSE LET p == SkipWs(st.buf, st.pos)
       IN IF p > Len(st.buf)
            THEN [st |-> [st EXCEPT !.pos = p, !.fail = TRUE], stored |-> FALSE, val |-> "?"]
            ELSE [st |-> [st EXCEPT !.pos = p + 1], stored |-> TRUE, val |-> st.buf[p]]

\* iss >> n, n an int: skips white space, takes an optional sign and a run of
\* digits; with no digit it fails and stores 0; on a failed stream it does
\* nothing
ExtractInt(st) ==
  IF st.fail THEN [st |-> st, stored |-> FALSE, val |-> 0]
  ELSE LET p == SkipWs(st.buf, st.pos)
           signed == p <= Len(st.buf) /\ st.buf[p] \in {"+", "-"}
           d == IF signed THEN p + 1 ELSE p
           e == DigitsEnd(st.buf, d)
           n == Decimal(st.buf, d, e, 0)
       IN IF p > Len(st.buf)
            THEN [st |-> [st EXCEPT !.pos = p, !.fail = TRUE], stored |-> FALSE, val |-> 0]
            ELSE IF e = d
              THEN [st |-> [st EXCEPT !.pos = d, !.fail = TRUE], stored |-> TRUE, val |-> 0]
              ELSE [st |-> [st EXCEPT !.pos = e], stored |-> TRUE,
                    val |-> IF signed /\ st.buf[p] = "-" THEN 0 - n ELSE n]

\* a FormatSpec before anything is extracted into it, with the local char
\* period beside it
FormatSpec_init == [repeat |-> 1, type |-> "?", width |-> 0, precision |-> 0, period |-> "?"]

\* iss >> f1 >> f2 >> ...: the fields named in fs are extracted in order
\* into f; type and period are chars, the others ints
RECURSIVE ExtractAll(_, _, _)
ExtractAll(st, f, fs) ==
  IF fs = <<>> THEN [st |-> st, f |-> f]
  ELSE LET x == Head(fs)
           e == IF x \in {"type", "period"} THEN ExtractChar(st) ELSE ExtractInt(st)
       IN ExtractAll(e.st, IF e.stored THEN [f EXCEPT ![x] = e.val] ELSE f, Tail(fs))

\* the four grammars, in the order they are tried: nXw.d, nXw, Xw, X
Grammars ==
  << <<"repeat", "type", "width", "period", "precision">>,
     <<"repeat", "type", "width">>,
     <<"type", "width">>,
     <<"type">> >>

\* the grammars tried in the opposite order
RECURSIVE TryGrammars_Reversed(_, _, _)
TryGrammars_Reversed(st, f, g) ==
  LET a == ExtractAll(st, f, Grammars[5 - g])
  IN IF ~a.st.fail THEN [ok |-> TRUE, f |-> a.f, grammar |-> 5 - g]
     ELSE IF g = Len(Grammars) THEN [ok |-> FALSE, f |-> a.f, grammar |-> 0]
     ELSE TryGrammars_Reversed(IssRewind(a.st), a.f, g + 1)

\* the nested ifs: grammar g is tried on st; when it fails the stream is
\* rewound and the next one is tried
RECURSIVE TryGrammars(_, _, _)
TryGrammars(st, f, g) ==
  LET a == ExtractAll(st, f, Grammars[g])
  IN IF ~a.st.fail THEN [ok |-> TRUE, f |-> a.f, grammar |-> g]
     ELSE IF g = Len(Grammars) THEN [ok |-> FALSE, f |-> a.f, grammar |-> 0]
     ELSE TryGrammars(IssRewind(a.st), a.f, g + 1)

\* the exceptions parseFormat and the section handlers throw: all are
\* FileParseError, told apart by their message
FileParseError(msg, where) == [kind |-> "FileParseError", msg |-> msg, where |-> where]

NoError == [kind |-> "none", msg |-> "", where |-> ""]

NoFormat == [repeat |-> 0, type |-> "?", width |-> 0, precision |-> 0]

FormatOf(f) == [repeat |-> f.repeat, type |-> f.type, width |-> f.width,
                precision |-> f.precision]

\* what *toks yields after ++toks moved the iterator past the last token:
\* the behaviour is undefined; an assertion aborts the process ("abort"), or
\* the iterator still holds the token it had ("stale"), or an empty one
PastEndOutcomes == {"abort", "stale", "empty"}

\* TypeExpected that accepts every type
TypeExpected_Always(expected_types, type) == TRUE

\* the check of the type against expected_types
TypeExpected(expected_types, type) == type \in expected_types

\* parseFormat(expected_types, where) on the line the reader delivers; u is
\* the outcome drawn when the iterator is dereferenced past the end
parseFormat(line, expected_types, where, u) ==
  IF LacksMarker(line)
    THEN [status |-> "thrown", err |-> FileParseError("Expected format for ", where),
          fmt |-> NoFormat, grammar |-> 0]
  ELSE
    LET tokens == Tokenize(line, {"(", ")"}, <<>>)
        pastEnd == Len(tokens) < 2
        tok == IF ~pastEnd THEN tokens[2]
               ELSE IF u = "stale" /\ tokens # <<>> THEN tokens[Len(tokens)]
               ELSE <<>>
        g == TryGrammars(IssOpen(tok), FormatSpec_init, 1)
    IN IF pastEnd /\ u = "abort"
         THEN [status |-> "aborted", err |-> NoError, fmt |-> NoFormat, grammar |-> 0]
       ELSE IF ~g.ok
         THEN [status |-> "thrown", err |-> FileParseError("Cannot parse format for ", where),
               fmt |-> NoFormat, grammar |-> 0]
       ELSE IF ~TypeExpected(expected_types, g.f.type)
         THEN [status |-> "thrown", err |-> FileParseError("Invalid format type for ", where),
               fmt |-> NoFormat, grammar |-> g.grammar]
       ELSE [status |-> "ok", err |-> NoError, fmt |-> FormatOf(g.f), grammar |-> g.grammar]

-----------------------------------------------------------------------------
(* The Amber object and its section handlers (src/amber.cpp).  A handler is *)
(* an operator from the object, the format line and the block of values the *)
(* data lines hold, to the object afterwards.  pc tells where Amber::read   *)
(* is: "scanning", "assigned", "deduced", "done" (it returned), "thrown"    *)
(* (an exception left it), "aborted" or "undefined" (undefined behaviour:   *)
(* a container was indexed outside its bounds).                             *)

\* an attribute of an Atom that no section has set
Unset == "unset"

\* new Atom, then pa->id(i)
Atom_new(i) == [id |-> i, name |-> Unset, charge |-> Unset, mass |-> Unset,
                resid |-> 0, resname |-> Unset, bonds |-> <<>>]

\* Atom::isBoundTo(p): p's id is among the atom's bonds
isBoundTo(a, b) == \E k \in 1..Len(a.bonds) : a.bonds[k] = b.id

\* Atom::addBond(p)
addBond(a, b) == [a EXCEPT !.bonds = Append(a.bonds, b.id)]

\* the Amber object before read() is called
Amber_new ==
  [pc |-> "scanning", natoms |-> 0, nbonh |-> 0, mbona |-> 0, nres |-> 0,
   amoeba_num |-> 0, atoms |-> <<>>, residue_labels |-> <<>>,
   residue_pointers |-> <<>>, title |-> <<>>, err |-> NoError, calls |-> <<>>]

Throw(am, e) == [am EXCEPT !.pc = "thrown", !.err = e]

Undefined(am) == [am EXCEPT !.pc = "undefined"]

\* parseFormat threw, or aborted the process
FormatFailed(am, pf) ==
  IF pf.status = "thrown" THEN Throw(am, pf.err) ELSE [am EXCEPT !.pc = "aborted"]

SizeError(msg) == FileParseError(msg, "")

\* a / b in C++: the quotient is truncated towards zero
CDiv(a, b) == IF a >= 0 THEN a \div b ELSE 0 - ((0 - a) \div b)

\* 3*n for an unsigned int n, as its two 16-bit halves <<high, low>>: the
\* product is taken modulo 2^32
UInt3Times(n) ==
  LET lo == 3 * (n % 65536)
      hi == 3 * (n \div 65536) + (lo \div 65536)
  IN <<hi % 65536, lo % 65536>>

\* bond_list.size() != 3*n
BondSizeDiffers(size, n) == <<size \div 65536, size % 65536>> # UInt3Times(n)

\* the outcomes of the call of parseFormat by parseCharges
parseCharges_format(fl) ==
  {parseFormat(fl, {"E", "F", "G"}, "charges", u) : u \in PastEndOutcomes}

\* parseCharges()
parseCharges(am, pf, charges) ==
     IF pf.status # "ok" THEN FormatFailed(am, pf)
     ELSE IF Len(charges) # Len(am.atoms)
       THEN Throw(am, SizeError("Error parsing charges from amber file"))
     ELSE [am EXCEPT !.atoms = [i \in 1..Len(am.atoms) |->
                                  [am.atoms[i] EXCEPT !.charge = charges[i]]]]

\* the outcomes of the call of parseFormat by parseMasses
parseMasses_format(fl) ==
  {parseFormat(fl, {"E", "F", "G"}, "masses", u) : u \in PastEndOutcomes}

\* parseMasses()
parseMasses(am, pf, masses) ==
     IF pf.status # "ok" THEN FormatFailed(am, pf)
     ELSE IF Len(masses) # Len(am.atoms)
       THEN Throw(am, SizeError("Error parsing masses from amber file"))
     ELSE [am EXCEPT !.atoms = [i \in 1..Len(am.atoms) |->
                                  [am.atoms[i] EXCEPT !.mass = masses[i]]]]

\* the outcomes of the call of parseFormat by parseResidueLabels
parseResidueLabels_format(fl) ==
  {parseFormat(fl, {"a"}, "residue labels", u) : u \in PastEndOutcomes}

\* parseResidueLabels(): the member is assigned before the count is checked
parseResidueLabels(am, pf, labels) ==
  LET am1 == [am EXCEPT !.residue_labels = labels]
  IN IF pf.status # "ok" THEN FormatFailed(am, pf)
     ELSE IF Len(labels) # am.nres
       THEN Throw(am1, SizeError("Error parsing residue labels from amber file"))
     ELSE am1

\* the outcomes of the call of parseFormat by parseResiduePointers
parseResiduePointers_format(fl) ==
  {parseFormat(fl, {"I"}, "residue pointers", u) : u \in PastEndOutcomes}

\* parseResiduePointers()
parseResiduePointers(am, pf, ptrs) ==
  LET am1 == [am EXCEPT !.residue_pointers = ptrs]
  IN IF pf.status # "ok" THEN FormatFailed(am, pf)
     ELSE IF Len(ptrs) # am.nres
       THEN Throw(am1, SizeError("Error parsing residue pointers from amber file"))
     ELSE am1

\* the outcomes of the call of parseFormat by parseAtomNames
parseAtomNames_format(fl) ==
  {parseFormat(fl, {"a"}, "atom names", u) : u \in PastEndOutcomes}

\* parseAtomNames with the loop over the names placed before the test of
\* their count
parseAtomNames_AssignFirst(am, pf, names) ==
     IF pf.status # "ok" THEN FormatFailed(am, pf)
     ELSE LET named == [am EXCEPT !.atoms = [i \in 1..Len(am.atoms) |->
                                  IF i <= Len(names)
                                    THEN [am.atoms[i] EXCEPT !.name = names[i]]
                                    ELSE am.atoms[i]]]
          IN IF Len(names) # am.natoms
               THEN Throw(named, SizeError("Error parsing atom names"))
             ELSE IF Len(names) > Len(am.atoms) THEN Undefined(am)
             ELSE named

\* parseAtomNames(): the count is checked against natoms
parseAtomNames(am, pf, names) ==
     IF pf.status # "ok" THEN FormatFailed(am, pf)
     ELSE IF Len(names) # am.natoms
       THEN Throw(am, SizeError("Error parsing atom names"))
     ELSE IF Len(names) > Len(am.atoms) THEN Undefined(am)
     ELSE [am EXCEPT !.atoms = [i \in 1..Len(am.atoms) |->
                                  IF i <= Len(names)
                                    THEN [am.atoms[i] EXCEPT !.name = names[i]]
                                    ELSE am.atoms[i]]]

\* the outcomes of the call of parseFormat by parseTitle
parseTitle_format(fl) ==
  {parseFormat(fl, {"a"}, "title", u) : u \in PastEndOutcomes}

\* parseTitle()
parseTitle(am, pf, titles) ==
     IF pf.status # "ok" THEN FormatFailed(am, pf)
     ELSE [am EXCEPT !.title = am.title \o titles]

\* the outcomes of the call of parseFormat by parsePointers
parsePointers_format(fl) ==
  {parseFormat(fl, {"I"}, "pointers", u) : u \in PastEndOutcomes}

\* parsePointers(): the counts are taken from positions 0, 2, 3 and 11 of
\* the block, then the atoms are created
parsePointers(am, pf, pointers) ==
     IF pf.status # "ok" THEN FormatFailed(am, pf)
     ELSE IF Len(pointers) < 12 THEN Undefined(am)
     ELSE LET am1 == [am EXCEPT !.natoms = pointers[1], !.nbonh = pointers[3],
                                !.mbona = pointers[4], !.nres = pointers[12]]
          IN IF Len(am.atoms) # 0
               THEN Throw(am1, [kind |-> "logic_error",
                                msg |-> "Internal error: trying to read in an amber parmtop into a non-empty group!",
                                where |-> ""])
               ELSE [am1 EXCEPT !.atoms = [i \in 1..am1.natoms |-> Atom_new(i)]]

\* the outcomes of the call of parseFormat by parseAmoebaRegularBondNumList
parseAmoebaRegularBondNumList_format(fl) ==
  {parseFormat(fl, {"I"}, "amoeba_regular_num_bond_list", u) : u \in PastEndOutcomes}

\* parseAmoebaRegularBondNumList(): one integer is read from the next line
parseAmoebaRegularBondNumList(am, pf, line) ==
     IF pf.status # "ok" THEN FormatFailed(am, pf)
     ELSE IF line = <<>>
       THEN Throw(am, SizeError("Error parsing amoeba_regular_bond_num_list"))
     ELSE [am EXCEPT !.amoeba_num = line[1]]

\* BondIndex with the extension list decoded as a primary section is
BondIndex_DivideAlways(rule, v) == CDiv(v, 3)

\* the atom a bond value denotes: v/3 in the primary sections, v-1 in the
\* extension list
BondIndex(rule, v) == IF rule = "div3" THEN CDiv(v, 3) ELSE v - 1

\* the loop over the triplets of bond_list, from position i (counted from 0)
RECURSIVE BondLoop(_, _, _, _)
BondLoop(atoms, bl, i, rule) ==
  IF i >= Len(bl) THEN [atoms |-> atoms, ub |-> FALSE]
  ELSE IF i + 2 > Len(bl) THEN [atoms |-> atoms, ub |-> TRUE]
  ELSE IF bl[i + 1] = bl[i + 2] THEN BondLoop(atoms, bl, i + 3, rule)
  ELSE LET a == BondIndex(rule, bl[i + 1])
           b == BondIndex(rule, bl[i + 2])
       IN IF a \notin 0..(Len(atoms) - 1) \/ b \notin 0..(Len(atoms) - 1)
            THEN [atoms |-> atoms, ub |-> TRUE]
            ELSE LET at1 == IF ~isBoundTo(atoms[a + 1], atoms[b + 1])
                              THEN [atoms EXCEPT ![a + 1] = addBond(@, atoms[b + 1])]
                              ELSE atoms
                     at2 == IF ~isBoundTo(at1[b + 1], at1[a + 1])
                              THEN [at1 EXCEPT ![b + 1] = addBond(@, at1[a + 1])]
                              ELSE at1
                 IN BondLoop(at2, bl, i + 3, rule)

\* the outcomes of the call of parseFormat by parseBonds
parseBonds_format(fl) ==
  {parseFormat(fl, {"I"}, "bonds", u) : u \in PastEndOutcomes}

\* parseBonds(n)
parseBonds(am, pf, n, bond_list) ==
     IF pf.status # "ok" THEN FormatFailed(am, pf)
     ELSE IF BondSizeDiffers(Len(bond_list), n)
       THEN Throw(am, SizeError("Error parsing bonds in amber file"))
     ELSE LET r == BondLoop(am.atoms, bond_list, 0, "div3")
          IN IF r.ub THEN Undefined([am EXCEPT !.atoms = r.atoms])
             ELSE [am EXCEPT !.atoms = r.atoms]

\* the outcomes of the call of parseFormat by parseAmoebaRegularBondList
parseAmoebaRegularBondList_format(fl) ==
  {parseFormat(fl, {"I"}, "amoeba_regular_bond_list", u) : u \in PastEndOutcomes}

\* parseAmoebaRegularBondList(n)
parseAmoebaRegularBondList(am, pf, n, bond_list) ==
     IF pf.status # "ok" THEN FormatFailed(am, pf)
     ELSE IF BondSizeDiffers(Len(bond_list), n)
       THEN Throw(am, SizeError("Error parsing amoeba bonds in amber file"))
     ELSE LET r == BondLoop(am.atoms, bond_list, 0, "minus1")
          IN IF r.ub THEN Undefined([am EXCEPT !.atoms = r.atoms])
             ELSE [am EXCEPT !.atoms = r.atoms]

\* one of the two inner loops of assignResidues: atoms[j - off] gets the
\* residue id and name for every j from the start up to (not including) to
RECURSIVE AssignRange(_, _, _, _, _, _)
AssignRange(atoms, j, to, off, curresid, curresname) ==
  IF j >= to THEN [atoms |-> atoms, ub |-> FALSE]
  ELSE IF (j - off) \notin 0..(Len(atoms) - 1) THEN [atoms |-> atoms, ub |-> TRUE]
  ELSE AssignRange([atoms EXCEPT ![j - off + 1] =
                      [@ EXCEPT !.resid = curresid, !.resname = curresname]],
                   j + 1, to, off, curresid, curresname)

\* i < nres-1 for unsigned i and nres: nres-1 is 2^32-1 when nres is 0
BeforeLastResidue(i, nres) == IF nres = 0 THEN TRUE ELSE i < nres - 1

\* the first loop of assignResidues, from residue i (counted from 0)
RECURSIVE ResidueLoop(_, _, _)
ResidueLoop(am, i, curresid) ==
  IF ~BeforeLastResidue(i, am.nres)
    THEN [atoms |-> am.atoms, i |-> i, curresid |-> curresid, ub |-> FALSE]
  ELSE IF i + 1 > Len(am.residue_labels) \/ i + 2 > Len(am.residue_pointers)
    THEN [atoms |-> am.atoms, i |-> i, curresid |-> curresid + 1, ub |-> TRUE]
  ELSE LET r == AssignRange(am.atoms, am.residue_pointers[i + 1],
                            am.residue_pointers[i + 2], 1,
                            curresid + 1, am.residue_labels[i + 1])
       IN IF r.ub
            THEN [atoms |-> r.atoms, i |-> i, curresid |-> curresid + 1, ub |-> TRUE]
            ELSE ResidueLoop([am EXCEPT !.atoms = r.atoms], i + 1, curresid + 1)

\* residue_pointers[i]-1 for an unsigned value: 0 gives 2^32-1, which is not
\* below natoms, so the last loop does not run
LastStart(p, natoms) == IF p = 0 THEN natoms ELSE p - 1

\* assignResidues without the statements after "Fix the end..."
assignResidues_NoEnd(am) ==
  IF ~(Len(am.residue_pointers) = am.nres /\ Len(am.residue_labels) = am.nres)
    THEN Throw(am, [kind |-> "runtime_error", msg |-> "Unable to assign residues.",
                    where |-> ""])
  ELSE LET r == ResidueLoop(am, 0, 0)
       IN IF r.ub THEN Undefined([am EXCEPT !.atoms = r.atoms])
          ELSE [am EXCEPT !.atoms = r.atoms, !.pc = "assigned",
                          !.calls = Append(@, "assignResidues")]

\* assignResidues()
assignResidues(am) ==
  IF ~(Len(am.residue_pointers) = am.nres /\ Len(am.residue_labels) = am.nres)
    THEN Throw(am, [kind |-> "runtime_error", msg |-> "Unable to assign residues.",
                    where |-> ""])
  ELSE LET r == ResidueLoop(am, 0, 0)
       IN IF r.ub THEN Undefined([am EXCEPT !.atoms = r.atoms])
          ELSE LET e == AssignRange(r.atoms,
                                    LastStart(am.residue_pointers[r.i + 1], am.natoms),
                                    am.natoms, 0, r.curresid + 1,
                                    am.residue_labels[r.i + 1])
               IN IF e.ub THEN Undefined([am EXCEPT !.atoms = e.atoms])
                  ELSE [am EXCEPT !.atoms = e.atoms, !.pc = "assigned",
                                  !.calls = Append(@, "assignResidues")]

-----------------------------------------------------------------------------
(* The parts of the state a specification does not use stay as they are here *)

NoWrite == [op |-> "none", size |-> 0, val |-> 0, start |-> 0, good |-> FALSE,
            ret |-> 0, thrown |-> FALSE]
NoRead == [op |-> "none", size |-> 0, val |-> 0, start |-> 0, avail |-> 0,
           ret |-> 0, set |-> FALSE, overrun |-> 0, thrown |-> FALSE]

\* the codec when a specification does not use it
InitCodecIdle ==
  /\ little = TRUE /\ r_swab = TRUE /\ w_swab = TRUE /\ wire = <<>> /\ cap = 0
  /\ wfail = FALSE /\ wbad = FALSE /\ rpos = 0 /\ rfail = FALSE
  /\ lastW = NoWrite /\ lastR = NoRead /\ halted = FALSE

Pending == [status |-> "pending", err |-> NoError, fmt |-> NoFormat, grammar |-> 0]

FormatIdle ==
  /\ fline = <<>>
  /\ fcaller = [expected |-> {}, where |-> ""]
  /\ fres = Pending

NoSection == [tag |-> "none", differs |-> FALSE]

NoneDecoded == [once |-> {}]

AmberIdle ==
  /\ amber = Amber_new
  /\ section = NoSection
  /\ decoded = NoneDecoded

-----------------------------------------------------------------------------
(* The codec as a state machine: one writer and one reader over the same    *)
(* bytes, as when a file is written and then read back                      *)

ostr == [wire |-> wire, cap |-> cap, fail |-> wfail, bad |-> wbad]
istr == [pos |-> rpos, fail |-> rfail]

Aborted == [NoRead EXCEPT !.op = "aborted"]

\* the file is written, then read back: the writer acts while no read has
\* been made on the reader
Unread == rpos = 0 /\ ~rfail /\ lastR = NoRead

\* the values of a size-byte scalar built from the input bytes
ScalarValues(size) ==
  IF size > BlockSize THEN {0}
  ELSE {LEValue(b) : b \in SeqsOfLen(ByteVals, size)}

\* what n bytes of an object that was never assigned may hold: the model
\* draws one byte and fills the n bytes with it
Unassigned(n) == {[i \in 1..n |-> b] : b \in ByteVals}

\* the byte blocks handed to the opaque write: every length, one filling
OpaqueBlocks == {[i \in 1..n |-> 1] : n \in 0..MaxOpaque}

\* the bytes the stream can still deliver
Avail == IF rfail THEN 0 ELSE Len(wire) - rpos

InitCodec(c) ==
  /\ FormatIdle
  /\ AmberIdle
  /\ cap = c
  /\ little \in BOOLEAN
  /\ r_swab = XDRReader_ctor(little)
  /\ w_swab \in XDRWriter_ctor(little)
  /\ wire = <<>>
  /\ wfail \in BOOLEAN    \* TRUE: the ostream was never opened
  /\ wbad = FALSE
  /\ rpos = 0
  /\ rfail = FALSE
  /\ lastW = NoWrite
  /\ lastR = NoRead
  /\ halted = FALSE

WriteScalar ==
  /\ ~halted
  /\ Unread
  /\ \E size \in ScalarSizes :
     \E v \in ScalarValues(size) :
     \E g \in Unassigned(IF size > BlockSize THEN 0 ELSE BlockSize - size) :
       LET r == XDRWriter_write(ostr, w_swab, little, size, v, g)
       IN /\ wire' = r.os.wire
          /\ wfail' = r.os.fail
          /\ wbad' = r.os.bad
          /\ lastW' = [op |-> "scalar", size |-> size, val |-> v, start |-> Len(wire),
                       good |-> ~stream_fail(ostr), ret |-> r.ret, thrown |-> r.thrown]
  /\ lastR' = NoRead
  /\ UNCHANGED <<little, r_swab, w_swab, cap, rpos, rfail, halted>>
  /\ UNCHANGED <<fmtVars, amberVars>>

WriteOpaque ==
  /\ ~halted
  /\ Unread
  /\ \E p \in OpaqueBlocks :
       LET r == XDRWriter_write_opaque(ostr, p, Len(p))
       IN /\ wire' = r.os.wire
          /\ wfail' = r.os.fail
          /\ wbad' = r.os.bad
          /\ lastW' = [op |-> "opaque", size |-> Len(p), val |-> p, start |-> Len(wire),
                       good |-> ~stream_fail(ostr), ret |-> r.ret, thrown |-> FALSE]
  /\ lastR' = NoRead
  /\ UNCHANGED <<little, r_swab, w_swab, cap, rpos, rfail, halted>>
  /\ UNCHANGED <<fmtVars, amberVars>>

WriteString ==
  /\ ~halted
  /\ Unread
  /\ \E s \in SeqsUpTo(ByteVals, MaxStr) :
       LET r == XDRWriter_write_string(ostr, w_swab, little, s)
       IN /\ wire' = r.os.wire
          /\ wfail' = r.os.fail
          /\ wbad' = r.os.bad
          /\ lastW' = [op |-> "string", size |-> Len(s), val |-> s, start |-> Len(wire),
                       good |-> ~stream_fail(ostr), ret |-> r.ret, thrown |-> FALSE]
  /\ lastR' = NoRead
  /\ UNCHANGED <<little, r_swab, w_swab, cap, rpos, rfail, halted>>
  /\ UNCHANGED <<fmtVars, amberVars>>

\* the arrays handed to the array write: every length, elements of value 1
ArrayBlocks == {[i \in 1..n |-> 1] : n \in 0..MaxArray}

WriteArray ==
  /\ ~halted
  /\ Unread
  /\ \E size \in ScalarSizes \ {8} :
     \E ary \in ArrayBlocks :
     \E g \in Unassigned(BlockSize - size) :
       LET r == XDRWriter_write_array(ostr, w_swab, little, size, ary, g, 0)
       IN /\ wire' = r.os.wire
          /\ wfail' = r.os.fail
          /\ wbad' = r.os.bad
          /\ lastW' = [op |-> "array", size |-> Len(ary), val |-> ary, start |-> Len(wire),
                       good |-> ~stream_fail(ostr), ret |-> r.ret, thrown |-> r.thrown]
  /\ lastR' = NoRead
  /\ UNCHANGED <<little, r_swab, w_swab, cap, rpos, rfail, halted>>
  /\ UNCHANGED <<fmtVars, amberVars>>

WriteDouble ==
  /\ ~halted
  /\ Unread
  /\ \E v \in {0, 1} :
       LET r == XDRWriter_write_double(ostr, w_swab, little, v)
       IN /\ wire' = r.os.wire
          /\ wfail' = r.os.fail
          /\ wbad' = r.os.bad
          /\ lastW' = [op |-> "double", size |-> DoubleSize, val |-> v, start |-> Len(wire),
                       good |-> ~stream_fail(ostr), ret |-> r.ret, thrown |-> r.thrown]
  /\ lastR' = NoRead
  /\ UNCHANGED <<little, r_swab, w_swab, cap, rpos, rfail, halted>>
  /\ UNCHANGED <<fmtVars, amberVars>>

\* read<T>(T*): when the stream delivers more bytes than T has, the read
\* writes past result; the build either goes on or aborts the process
ReadScalar ==
  /\ ~halted
  /\ \E size \in ScalarSizes :
       LET r == XDRReader_read(wire, istr, r_swab, little, size)
       IN /\ rpos' = r.pos
          /\ rfail' = r.fail
          /\ \E abort \in (IF r.overrun > 0 THEN BOOLEAN ELSE {FALSE}) :
               /\ halted' = abort
               /\ lastR' = IF abort THEN Aborted
                           ELSE [op |-> "scalar", size |-> size, val |-> r.val,
                                 start |-> rpos, avail |-> Avail, ret |-> r.ret,
                                 set |-> ~r.thrown, overrun |-> r.overrun,
                                 thrown |-> r.thrown]
  /\ UNCHANGED <<little, r_swab, w_swab, wire, cap, wfail, wbad, lastW>>
  /\ UNCHANGED <<fmtVars, amberVars>>

ReadOpaque ==
  /\ ~halted
  /\ \E n \in 0..(MaxOpaque + 1) :
       LET r == XDRReader_read_opaque(wire, istr, n)
       IN /\ rpos' = r.pos
          /\ rfail' = r.fail
          /\ lastR' = [op |-> "opaque", size |-> n, val |-> r.got, start |-> rpos,
                       avail |-> Avail, ret |-> r.ret, set |-> TRUE, overrun |-> 0,
                       thrown |-> FALSE]
  /\ UNCHANGED <<little, r_swab, w_swab, wire, cap, wfail, wbad, lastW, halted>>
  /\ UNCHANGED <<fmtVars, amberVars>>

ReadString ==
  /\ ~halted
  /\ LET r == XDRReader_read_string(wire, istr, r_swab, little)
     IN /\ rpos' = r.pos
        /\ rfail' = r.fail
        /\ lastR' = [op |-> "string", size |-> Len(r.str), val |-> r.str, start |-> rpos,
                     avail |-> Avail, ret |-> r.ret, set |-> r.set, overrun |-> 0,
                     thrown |-> FALSE]
  /\ UNCHANGED <<little, r_swab, w_swab, wire, cap, wfail, wbad, lastW, halted>>
  /\ UNCHANGED <<fmtVars, amberVars>>

\* a new XDRReader on a new istream over the bytes written
NewReader ==
  /\ ~halted
  /\ r_swab' = XDRReader_ctor(little)
  /\ rpos' = 0
  /\ rfail' = FALSE
  /\ lastR' = NoRead
  /\ UNCHANGED <<little, w_swab, wire, cap, wfail, wbad, lastW, halted>>
  /\ UNCHANGED <<fmtVars, amberVars>>

\* the scalar operations
NextXDR ==
  \/ WriteScalar
  \/ WriteArray
  \/ WriteDouble
  \/ ReadScalar
  \/ NewReader

InitXDR == InitCodec(MaxScalarWire)

SpecXDR == InitXDR /\ [][NextXDR]_vars

\* the opaque and string operations
NextXDRBlock ==
  \/ WriteOpaque
  \/ WriteString
  \/ ReadOpaque
  \/ ReadString
  \/ NewReader

InitXDRBlock == InitCodec(MaxWire)

SpecXDRBlock == InitXDRBlock /\ [][NextXDRBlock]_vars

-----------------------------------------------------------------------------
(* parseFormat as a state machine: a line and a caller are drawn, and        *)
(* parseFormat is called once                                                *)

\* the characters format specs are built from: two digits, an integer and
\* an alphabetic type, the period
SpecAlphabet == {"2", "8", "I", "a", "."}

\* the calls of parseFormat by the section handlers
Callers ==
  { [expected |-> {"E", "F", "G"}, where |-> "charges"],
    [expected |-> {"E", "F", "G"}, where |-> "masses"],
    [expected |-> {"a"}, where |-> "residue labels"],
    [expected |-> {"I"}, where |-> "residue pointers"],
    [expected |-> {"I"}, where |-> "bonds"],
    [expected |-> {"I"}, where |-> "pointers"],
    [expected |-> {"a"}, where |-> "title"],
    [expected |-> {"a"}, where |-> "atom names"],
    [expected |-> {"I"}, where |-> "amoeba_regular_num_bond_list"],
    [expected |-> {"I"}, where |-> "amoeba_regular_bond_list"] }

\* the callers drawn under SpecFormat: one for each expected_types
FormatCallers == {c \in Callers : c.where \in {"charges", "bonds", "title"}}

\* "%FORMAT(" spec ")"
FormatLine(spec) == FormatMarker \o <<"(">> \o spec \o <<")">>

\* lines written out in full
Line_20I8 == FormatLine(<<"2", "0", "I", "8">>)
Line_5E16_8 == FormatLine(<<"5", "E", "1", "6", ".", "8">>)
Line_20a4 == FormatLine(<<"2", "0", "a", "4">>)
Line_10I8 == FormatLine(<<"1", "0", "I", "8">>)

OtherLines ==
  { Line_20I8, Line_5E16_8, Line_20a4, Line_10I8,
    FormatLine(<<" ">>),                            \* a blank spec
    FormatLine(<<" ", "5", " ", "E", "1", "6", " ", ".", "8">>),
    FormatLine(<<"-", "2", "I", "8">>),
    FormatMarker,                                   \* no parentheses
    FormatMarker \o <<"(", ")">>,                   \* nothing between them
    FormatMarker \o <<" ", "(", ")">>,
    <<>>,                                           \* an empty line
    <<"(", "2", "0", "I", "8", ")">>,               \* no marker
    <<"%", "F", "L", "A", "G", " ", "M", "A", "S", "S">>,
    <<"%", "F", "O", "R", "M">> }

FormatLines == {FormatLine(s) : s \in SeqsUpTo(SpecAlphabet, MaxSpecLen)} \cup OtherLines

InitFormat ==
  /\ fline \in FormatLines
  /\ fcaller \in FormatCallers
  /\ fres = Pending
  /\ InitCodecIdle
  /\ AmberIdle

ParseFormat ==
  /\ fres.status = "pending"
  /\ \E u \in PastEndOutcomes :
       fres' = parseFormat(fline, fcaller.expected, fcaller.where, u)
  /\ UNCHANGED <<fline, fcaller>>
  /\ UNCHANGED <<xdrVars, amberVars>>

NextFormat == ParseFormat

SpecFormat == InitFormat /\ [][NextFormat]_vars

-----------------------------------------------------------------------------
(* Amber::read as a state machine: a step handles the next line of the file *)
(* with the block that follows it, or runs one of the three calls that      *)
(* follow the loop.  The lines and blocks are drawn from a domain D.        *)

\* the loop still entered after the first call that follows it
Scanning_AfterEnd == amber.pc \in {"scanning", "assigned"}

\* the loop of read() is under way
Scanning == amber.pc = "scanning"

SectionTags ==
  { "TITLE", "POINTERS", "ATOM_NAME", "CHARGE", "MASS", "RESIDUE_LABEL",
    "RESIDUE_POINTER", "BONDS_INC_HYDROGEN", "BONDS_WITHOUT_HYDROGEN",
    "AMOEBA_REGULAR_BOND_NUM_LIST", "AMOEBA_REGULAR_BOND_LIST" }

\* the body of the loop of read() on a line given as its tokens: the tag
\* of the handler it calls, "skip" when it calls none, "aborted" when
\* dereferencing the token iterator at its end stopped the process
Dispatch(tokens, u) ==
  IF tokens = <<>> THEN (IF u = "abort" THEN "aborted" ELSE "skip")
  ELSE IF tokens[1] # "%FLAG" THEN "skip"
  ELSE IF Len(tokens) < 2 THEN (IF u = "abort" THEN "aborted" ELSE "skip")
  ELSE IF tokens[2] \in SectionTags THEN tokens[2]
  ELSE "skip"

Handles(tag) == \A u \in PastEndOutcomes : Dispatch(<<"%FLAG", tag>>, u) = tag

\* a POINTERS block of len integers
PointerBlock(na, nbh, mba, nr, len) ==
  [i \in 1..len |-> CASE i = 1 -> na [] i = 3 -> nbh [] i = 4 -> mba
                      [] i = 12 -> nr [] OTHER -> 0]

\* a block of k equal values
AtomBlock(k, v) == [i \in 1..k |-> v]

ResidueNames == <<"ALA", "GLY", "SER", "TRP", "VAL", "LEU", "HIS">>

\* a RESIDUE_LABEL block of k labels
LabelBlock(k) == SubSeq(ResidueNames, 1, k)

\* the positions of a bond block where a pair of different values stands
PairPositions(bl) ==
  {i \in 0..Len(bl) : i % 3 = 0 /\ i + 2 <= Len(bl) /\ bl[i + 1] # bl[i + 2]}

\* the pairs of different values the loops went through so far, each with
\* the section kind it stood in ("div3": a primary section, "minus1": the
\* extension list); the third value of a triplet is read by no statement
Record(d, bl, rule) ==
  [once |-> d.once \cup {<<rule, bl[i + 1], bl[i + 2]>> : i \in PairPositions(bl)}]

\* size is not 3 x n, for integers of any width
IsNotThrice(size, n) == size % 3 # 0 \/ size \div 3 # n

\* the record of a handled line: its tag, and whether its block was read
\* and holds a number of elements other than the count the section is
\* sized by
Sect(tag, supplied, count) == [tag |-> tag, differs |-> supplied # count]

Sized(tag, pf, supplied, count) ==
  [tag |-> tag, differs |-> pf.status = "ok" /\ supplied # count]

SizedBonds(tag, pf, supplied, n) ==
  [tag |-> tag, differs |-> pf.status = "ok" /\ IsNotThrice(supplied, n)]

ReadTitle(D) ==
  /\ Scanning /\ Handles("TITLE")
  /\ Len(amber.title) < MaxTitle
  /\ \E fl \in D.formats : \E pf \in parseTitle_format(fl) : \E b \in D.titles :
       /\ amber' = parseTitle(amber, pf, b)
       /\ section' = Sect("TITLE", 0, 0)
  /\ UNCHANGED <<decoded, xdrVars, fmtVars>>

ReadPointers(D) ==
  /\ Scanning /\ Handles("POINTERS")
  /\ \E fl \in D.formats : \E pf \in parsePointers_format(fl) : \E b \in D.pointers :
       /\ amber' = parsePointers(amber, pf, b)
       /\ section' = Sect("POINTERS", 0, 0)
  /\ UNCHANGED <<decoded, xdrVars, fmtVars>>

ReadAtomName(D) ==
  /\ Scanning /\ Handles("ATOM_NAME")
  /\ \E fl \in D.formats : \E pf \in parseAtomNames_format(fl) : \E b \in D.names :
       /\ amber' = parseAtomNames(amber, pf, b)
       /\ section' = Sized("ATOM_NAME", pf, Len(b), amber.natoms)
  /\ UNCHANGED <<decoded, xdrVars, fmtVars>>

ReadCharge(D) ==
  /\ Scanning /\ Handles("CHARGE")
  /\ \E fl \in D.formats : \E pf \in parseCharges_format(fl) : \E b \in D.charges :
       /\ amber' = parseCharges(amber, pf, b)
       /\ section' = Sized("CHARGE", pf, Len(b), amber.natoms)
  /\ UNCHANGED <<decoded, xdrVars, fmtVars>>

ReadMass(D) ==
  /\ Scanning /\ Handles("MASS")
  /\ \E fl \in D.formats : \E pf \in parseMasses_format(fl) : \E b \in D.masses :
       /\ amber' = parseMasses(amber, pf, b)
       /\ section' = Sized("MASS", pf, Len(b), amber.natoms)
  /\ UNCHANGED <<decoded, xdrVars, fmtVars>>

ReadResidueLabel(D) ==
  /\ Scanning /\ Handles("RESIDUE_LABEL")
  /\ \E fl \in D.formats : \E pf \in parseResidueLabels_format(fl) : \E b \in D.labels :
       /\ amber' = parseResidueLabels(amber, pf, b)
       /\ section' = Sized("RESIDUE_LABEL", pf, Len(b), amber.nres)
  /\ UNCHANGED <<decoded, xdrVars, fmtVars>>

ReadResiduePointer(D) ==
  /\ Scanning /\ Handles("RESIDUE_POINTER")
  /\ \E fl \in D.formats : \E pf \in parseResiduePointers_format(fl) : \E b \in D.rptrs :
       /\ amber' = parseResiduePointers(amber, pf, b)
       /\ section' = Sized("RESIDUE_POINTER", pf, Len(b), amber.nres)
  /\ UNCHANGED <<decoded, xdrVars, fmtVars>>

ReadBondsIncHydrogen(D) ==
  /\ Scanning /\ Handles("BONDS_INC_HYDROGEN")
  /\ \E fl \in D.formats : \E pf \in parseBonds_format(fl) : \E b \in D.bonds :
       /\ amber' = parseBonds(amber, pf, amber.nbonh, b)
       /\ section' = SizedBonds("BONDS_INC_HYDROGEN", pf, Len(b), amber.nbonh)
       /\ decoded' = IF amber'.pc = "scanning" /\ amber'.err = NoError
                       THEN Record(decoded, b, "div3") ELSE decoded
  /\ UNCHANGED <<xdrVars, fmtVars>>

ReadBondsWithoutHydrogen(D) ==
  /\ Scanning /\ Handles("BONDS_WITHOUT_HYDROGEN")
  /\ \E fl \in D.formats : \E pf \in parseBonds_format(fl) : \E b \in D.bonds :
       /\ amber' = parseBonds(amber, pf, amber.mbona, b)
       /\ section' = SizedBonds("BONDS_WITHOUT_HYDROGEN", pf, Len(b), amber.mbona)
       /\ decoded' = IF amber'.pc = "scanning" /\ amber'.err = NoError
                       THEN Record(decoded, b, "div3") ELSE decoded
  /\ UNCHANGED <<xdrVars, fmtVars>>

ReadAmoebaRegularBondNumList(D) ==
  /\ Scanning /\ Handles("AMOEBA_REGULAR_BOND_NUM_LIST")
  /\ \E fl \in D.formats : \E pf \in parseAmoebaRegularBondNumList_format(fl) : \E b \in D.amoebaNums :
       /\ amber' = parseAmoebaRegularBondNumList(amber, pf, b)
       /\ section' = Sect("AMOEBA_REGULAR_BOND_NUM_LIST", 0, 0)
  /\ UNCHANGED <<decoded, xdrVars, fmtVars>>

ReadAmoebaRegularBondList(D) ==
  /\ Scanning /\ Handles("AMOEBA_REGULAR_BOND_LIST")
  /\ \E fl \in D.formats : \E pf \in parseAmoebaRegularBondList_format(fl) : \E b \in D.amoebaBonds :
       /\ amber' = parseAmoebaRegularBondList(amber, pf, amber.amoeba_num, b)
       /\ section' = SizedBonds("AMOEBA_REGULAR_BOND_LIST", pf, Len(b), amber.amoeba_num)
       /\ decoded' = IF amber'.pc = "scanning" /\ amber'.err = NoError
                       THEN Record(decoded, b, "minus1") ELSE decoded
  /\ UNCHANGED <<xdrVars, fmtVars>>

\* a line that calls no handler
SkipLine(D) ==
  /\ Scanning
  /\ \E l \in D.lines, u \in PastEndOutcomes :
       LET d == Dispatch(l, u)
       IN /\ d \in {"skip", "aborted"}
          /\ amber' = IF d = "aborted" THEN [amber EXCEPT !.pc = "aborted"] ELSE amber
          /\ section' = Sect("skipped", 0, 0)
  /\ UNCHANGED <<decoded, xdrVars, fmtVars>>

\* reader.getNext() found the end of the file: the loop is left
AssignResidues ==
  /\ Scanning
  /\ amber' = assignResidues(amber)
  /\ section' = Sect("end of file", 0, 0)
  /\ UNCHANGED <<decoded, xdrVars, fmtVars>>

DeduceAtomicNumberFromMass ==
  /\ amber.pc = "assigned"
  /\ amber' = [amber EXCEPT !.pc = "deduced",
                            !.calls = Append(@, "deduceAtomicNumberFromMass")]
  /\ UNCHANGED <<section, decoded, xdrVars, fmtVars>>

SetGroupConnectivity ==
  /\ amber.pc = "deduced"
  /\ amber' = [amber EXCEPT !.pc = "done",
                            !.calls = Append(@, "setGroupConnectivity")]
  /\ UNCHANGED <<section, decoded, xdrVars, fmtVars>>

InitAmber ==
  /\ AmberIdle
  /\ InitCodecIdle
  /\ FormatIdle

\* ---- files that hold the POINTERS and the two residue sections

\* the strictly increasing sequences over S of length up to n
Increasing(S, n) ==
  {s \in SeqsUpTo(S, n) : \A i \in 1..Len(s) : \A j \in 1..Len(s) : i < j => s[i] < s[j]}

\* the example of ten atoms in three residues that start at atoms 1, 5, 9
ExamplePointers == PointerBlock(10, 0, 0, 3, 12)
ExampleResiduePointers == <<1, 5, 9>>

ResiduesDomain ==
  [ formats |-> {Line_10I8, Line_20a4},
    pointers |-> {PointerBlock(na, 0, 0, nr, 12) : na \in 0..MaxAtoms, nr \in 0..MaxRes}
                 \cup {ExamplePointers},
    labels |-> {LabelBlock(k) : k \in 0..MaxRes},
    rptrs |-> Increasing(1..(MaxAtoms + 1), MaxRes)
              \cup {ExampleResiduePointers, <<0>>, <<0, 2>>, <<2, 1>>, <<1, 1>>} ]

NextResidues ==
  \/ ReadPointers(ResiduesDomain)
  \/ ReadResidueLabel(ResiduesDomain)
  \/ ReadResiduePointer(ResiduesDomain)
  \/ AssignResidues
  \/ DeduceAtomicNumberFromMass
  \/ SetGroupConnectivity

SpecResidues == InitAmber /\ [][NextResidues]_vars

\* ---- files that hold the POINTERS and the bond sections; the loop of
\* read() alone, the calls that follow it left out

\* a bond count n for which 3*n, taken modulo 2^32, is 2
WrapCount == 21845 * 65536 + 21846

\* triplets of a primary bond section: the atoms 0 and 1, 1 and 0, a pair
\* of equal values, two values of the same atom, the atoms 0 and 2
BondTriplets ==
  { <<0, 3, 1>>, <<3, 0, 2>>, <<3, 3, 1>>, <<3, 4, 1>>, <<0, 6, 1>> }

\* triplets of the extension list: the atoms 0 and 1, 1 and 0, a pair of
\* equal values, the atoms 0 and 2
AmoebaTriplets == { <<1, 2, 1>>, <<2, 1, 2>>, <<2, 2, 1>>, <<1, 3, 1>> }

\* the blocks made of up to n of the triplets
RECURSIVE BlocksOf(_, _)
BlocksOf(T, n) ==
  IF n = 0 THEN {<<>>}
  ELSE LET shorter == BlocksOf(T, n - 1)
       IN shorter \cup {b \o tr : b \in {s \in shorter : Len(s) = 3 * (n - 1)}, tr \in T}

\* blocks that are no whole number of triplets
BrokenBlocks == { <<0, 3>>, <<0, 3, 1, 3>> }

BondsDomain ==
  [ formats |-> {Line_10I8, Line_20a4},
    pointers |-> { PointerBlock(0, 1, 0, 0, 12),
                   PointerBlock(2, 1, 1, 0, 12),
                   PointerBlock(MaxAtoms, 0, 0, 0, 12),
                   PointerBlock(MaxAtoms, MaxBondCount, 1, 0, 12),
                   PointerBlock(MaxAtoms, WrapCount, 0, 0, 12) },
    bonds |-> BlocksOf(BondTriplets, MaxBondCount) \cup BrokenBlocks,
    amoebaNums |-> {<<>>} \cup {<<n>> : n \in 0..1},
    amoebaBonds |-> BlocksOf(AmoebaTriplets, 1) \cup BrokenBlocks ]

NextBonds ==
  \/ ReadPointers(BondsDomain)
  \/ ReadBondsIncHydrogen(BondsDomain)
  \/ ReadBondsWithoutHydrogen(BondsDomain)
  \/ ReadAmoebaRegularBondNumList(BondsDomain)
  \/ ReadAmoebaRegularBondList(BondsDomain)

SpecBonds == InitAmber /\ [][NextBonds]_vars

\* ---- whole files: every kind of line, and the calls that follow the loop

ReadDomain ==
  [ formats |-> {Line_10I8, Line_20a4, Line_5E16_8},
    lines |-> { <<>>, <<"%FLAG">>, <<"%FLAG", "ATOMIC_NUMBER">>,
                <<"%VERSION", "VERSION_STAMP">>, <<"20", "30">> },
    titles |-> {<<"t">>},
    pointers |-> { PointerBlock(0, 0, 0, 0, 12),
                   PointerBlock(MaxAtoms, 1, 0, 1, 12),
                   PointerBlock(MaxAtoms, WrapCount, 0, 1, 12),
                   PointerBlock(MaxAtoms, 1, 0, 1, 11) },
    names |-> {AtomBlock(k, "CA") : k \in 0..(MaxAtoms + 1)},
    charges |-> {AtomBlock(k, 1) : k \in 0..(MaxAtoms + 1)},
    masses |-> {AtomBlock(k, 12) : k \in 0..(MaxAtoms + 1)},
    labels |-> {LabelBlock(k) : k \in 0..1},
    rptrs |-> {<<>>, <<1>>},
    bonds |-> BlocksOf({<<0, 3, 1>>}, 1) \cup BrokenBlocks,
    amoebaNums |-> {<<>>, <<1>>},
    amoebaBonds |-> BlocksOf({<<1, 2, 1>>}, 1) \cup BrokenBlocks ]

Init == InitAmber

Next ==
  \/ SkipLine(ReadDomain)
  \/ ReadTitle(ReadDomain)
  \/ ReadPointers(ReadDomain)
  \/ ReadAtomName(ReadDomain)
  \/ ReadCharge(ReadDomain)
  \/ ReadMass(ReadDomain)
  \/ ReadResidueLabel(ReadDomain)
  \/ ReadResiduePointer(ReadDomain)
  \/ ReadBondsIncHydrogen(ReadDomain)
  \/ ReadBondsWithoutHydrogen(ReadDomain)
  \/ ReadAmoebaRegularBondNumList(ReadDomain)
  \/ ReadAmoebaRegularBondList(ReadDomain)
  \/ AssignResidues
  \/ DeduceAtomicNumberFromMass
  \/ SetGroupConnectivity

Spec == Init /\ [][Next]_vars

-----------------------------------------------------------------------------
(* Properties of the codec *)

\* the last write was made on a good stream and the device took all of it
WriteWentThrough == lastW.op # "none" /\ lastW.good /\ ~wfail /\ ~wbad

\* the last read started where the last write did
ReadBack(op) ==
  /\ lastW.op = op
  /\ WriteWentThrough
  /\ lastR.op = op
  /\ lastR.start = lastW.start

\* the two hosts of the claim: low byte first with both swap flags set, high
\* byte first with both swap flags clear
HostAsClaimed == (little /\ r_swab /\ w_swab) \/ (~little /\ ~r_swab /\ ~w_swab)

\* C1 (as claimed): a scalar of 1, 2 or 4 bytes, written by write<T> and read
\* back by read<T>(T*) from the bytes just written, comes back as the value
\* written, on a little-endian host (flags set) and on a big-endian host
\* (flags clear).
C1_ScalarRoundTrip ==
  (/\ HostAsClaimed
   /\ ReadBack("scalar")
   /\ lastW.size <= BlockSize
   /\ lastR.size = lastW.size)
  => (lastR.ret = 1 /\ lastR.val = lastW.val)

\* the padding of the claim
Pad(n) == (4 - (n % 4)) % 4

\* C2: write(const char*, n) on a healthy stream advances it by n + pad bytes,
\* pad = (4 - n mod 4) mod 4 in 0..3, and read(char*, n) on a stream that
\* holds n + pad bytes consumes exactly n + pad of them.
C2_PaddingAdvance ==
  /\ (lastW.op = "opaque" /\ WriteWentThrough)
       => (/\ Len(wire) = lastW.start + lastW.size + Pad(lastW.size)
           /\ Pad(lastW.size) \in 0..3)
  /\ (lastR.op = "opaque" /\ lastR.avail >= lastR.size + Pad(lastR.size))
       => rpos = lastR.start + lastR.size + Pad(lastR.size)

\* C2 witness: three bytes were written with one byte of padding and read back
C2_Witness ==
  /\ ReadBack("opaque")
  /\ lastW.size = 3
  /\ lastR.size = 3
  /\ Len(wire) = lastW.start + 4
  /\ rpos = lastR.start + 4

\* C3 (as claimed): a string written by write(const std::string&) and read
\* back by read(std::string&) from the bytes just written comes back equal.
C3_StringRoundTrip ==
  ReadBack("string") => (lastR.ret # 0 /\ lastR.set /\ lastR.val = lastW.val)

\* C10 (as claimed): read(char*, n) returns 0 when fewer than n payload bytes
\* can be read and n otherwise, n = 0 included.
C10_ReturnsNOrZero ==
  lastR.op = "opaque"
    => lastR.ret = (IF lastR.avail < lastR.size THEN 0 ELSE lastR.size)

\* C10 (amended): for n > 0, read(char*, n) returns 0 when fewer than n
\* payload bytes can be read and n otherwise; for n = 0 it returns 1 and
\* reads nothing.
C10_ReadOpaqueReturn ==
  lastR.op = "opaque"
    => /\ lastR.size > 0
          => lastR.ret = (IF lastR.avail < lastR.size THEN 0 ELSE lastR.size)
       /\ lastR.size = 0 => (lastR.ret = 1 /\ rpos = lastR.start)

\* C10 witness: a read of no bytes returned 1, and a read cut short returned 0
C10_Witness ==
  /\ lastR.op = "opaque"
  /\ lastR.size = 0
  /\ lastR.ret = 1
  /\ Len(wire) > 0

-------------------------------------------------------------------\* C11: a write that leaves the stream failed (failbit or badbit) is never
\* reported as success: the scalar writes return 0, the array write returns
\* fewer elements than it was given, the opaque and the string write return
\* 0, and none of them throws for the stream's fault.
StreamFaulted == lastW.op # "none" /\ (wfail \/ wbad)

SizeFault == lastW.op \in {"scalar", "array"} /\ lastW.thrown

C11_StreamFailureReported ==
  (StreamFaulted /\ ~SizeFault) =>
     /\ ~lastW.thrown
     /\ lastW.op \in {"scalar", "double", "opaque", "string"} => lastW.ret = 0
     /\ (lastW.op = "array" /\ lastW.size > 0) => lastW.ret < lastW.size

\* the 4-byte word the last scalar write put on the wire, and the N bytes of
\* it that are the low-order bytes of the word read high byte first
WordWritten == SubSeq(wire, lastW.start + 1, lastW.start + BlockSize)

LowOrderBytes(word, n) == SubSeq(word, BlockSize - n + 1, BlockSize)

BigEndianValue(b) == LEValue(Reverse(b))

\* C12: write<T> of a value of N = 1, 2 or 4 bytes emits one 4-byte word
\* whose low-order N bytes (big-endian) hold the value, and read<T> takes the
\* value from those same N bytes, on a little-endian host (flags set) as on a
\* big-endian host (flags clear).
C12_WireLayout ==
  (/\ HostAsClaimed
   /\ lastW.op = "scalar"
   /\ WriteWentThrough
   /\ lastW.size <= BlockSize)
  => /\ Len(wire) = lastW.start + BlockSize
     /\ BigEndianValue(LowOrderBytes(WordWritten, lastW.size)) = lastW.val
     /\ (ReadBack("scalar") /\ lastR.size = lastW.size /\ lastR.ret = 1)
          => lastR.val = BigEndianValue(LowOrderBytes(WordWritten, lastW.size))

\* C17: in every state after construction the reader's and the writer's swap
\* flag are true exactly when the host is little-endian (so no operation
\* changes them, and on a big-endian host nothing is ever swapped).
C17_SwapFlagIsHostOrder == (r_swab <=> little) /\ (w_swab <=> little)

----------
(* Properties of parseFormat *)

Letters == {"I", "a", "E", "F", "G"}

IsDigits(s) == s # <<>> /\ \A i \in 1..Len(s) : s[i] \in DigitChars

\* the number a run of digits writes
RECURSIVE NumberOf(_)
NumberOf(s) ==
  IF s = <<>> THEN 0 ELSE 10 * NumberOf(SubSeq(s, 1, Len(s) - 1)) + DigitVal(s[Len(s)])

\* the tokens of the line, and the spec between its parentheses
LineTokens == Tokenize(fline, {"(", ")"}, <<>>)
HasSpec == ~LacksMarker(fline) /\ Len(LineTokens) >= 2
SpecText == LineTokens[2]

\* grammar g, tried alone on the text s, extracts all its fields
GrammarMatches(g, s) == ~ExtractAll(IssOpen(s), FormatSpec_init, Grammars[g]).st.fail

Returned == fres.status = "ok"
Threw(msg) == fres.status = "thrown" /\ fres.err.msg = msg

\* C7: a spec written repeat-type-width.precision comes back with all four
\* fields as written, a spec written repeat-type-width with repeat, type and
\* width as written (the type being one the caller expects), and the grammar
\* committed to is the first of the four, in order, that extracts all its
\* fields.
C7_ParseFormatFields ==
  (fres.status # "pending" /\ HasSpec) =>
    LET s == SpecText
        n == Len(s)
    IN /\ \A i \in 2..n : \A j \in (i + 2)..(n - 1) :
            (/\ IsDigits(SubSeq(s, 1, i - 1))
             /\ s[i] \in Letters
             /\ IsDigits(SubSeq(s, i + 1, j - 1))
             /\ s[j] = "."
             /\ IsDigits(SubSeq(s, j + 1, n))
             /\ s[i] \in fcaller.expected)
            => /\ Returned
               /\ fres.fmt = [repeat |-> NumberOf(SubSeq(s, 1, i - 1)), type |-> s[i],
                              width |-> NumberOf(SubSeq(s, i + 1, j - 1)),
                              precision |-> NumberOf(SubSeq(s, j + 1, n))]
       /\ \A i \in 2..(n - 1) :
            (/\ IsDigits(SubSeq(s, 1, i - 1))
             /\ s[i] \in Letters
             /\ IsDigits(SubSeq(s, i + 1, n))
             /\ s[i] \in fcaller.expected)
            => /\ Returned
               /\ fres.fmt.repeat = NumberOf(SubSeq(s, 1, i - 1))
               /\ fres.fmt.type = s[i]
               /\ fres.fmt.width = NumberOf(SubSeq(s, i + 1, n))
       /\ Returned =>
            /\ fres.grammar \in 1..4
            /\ GrammarMatches(fres.grammar, s)
            /\ \A g \in 1..(fres.grammar - 1) : ~GrammarMatches(g, s)

\* C7 witness: "%FORMAT(5E16.8)" read for the charges came back as
\* repeat 5, type E, width 16, precision 8
C7_Witness ==
  /\ fline = Line_5E16_8
  /\ fcaller.where = "charges"
  /\ Returned
  /\ fres.fmt = [repeat |-> 5, type |-> "E", width |-> 16, precision |-> 8]

\* the line has the marker and what stands between its parentheses (nothing,
\* when they are empty or missing) matches none of the four grammars
NoGrammarMatches ==
  /\ ~LacksMarker(fline)
  /\ LET s == IF Len(LineTokens) >= 2 THEN LineTokens[2] ELSE <<>>
     IN \A g \in 1..4 : ~GrammarMatches(g, s)

FormatParseErrors == {"Expected format for ", "Cannot parse format for "}

\* C8 (as claimed): a line without the %FORMAT marker, or with it and a
\* content that matches none of the four grammars (an empty or missing
\* parenthesized spec included), makes parseFormat throw the format-parse
\* error and return no descriptor.
C8_FormatParseError ==
  (fres.status # "pending" /\ (LacksMarker(fline) \/ NoGrammarMatches))
    => (fres.status = "thrown" /\ fres.err.msg \in FormatParseErrors)

\* the kinds of the format-parse error and of the section-size error
OtherErrorKinds ==
  { FileParseError("Expected format for ", fcaller.where).kind,
    FileParseError("Cannot parse format for ", fcaller.where).kind,
    FileParseError("Error parsing atom names", "").kind }

\* a grammar matched the spec and the type it parsed is not expected
TypeNotExpected ==
  /\ fres.status # "pending"
  /\ HasSpec
  /\ \E g \in 1..4 : GrammarMatches(g, SpecText)
  /\ TryGrammars(IssOpen(SpecText), FormatSpec_init, 1).f.type \notin fcaller.expected

\* C9 (as claimed): when a grammar succeeds and the type is not expected,
\* parseFormat throws an error of a kind distinct from that of the
\* format-parse error and of the section-size error, naming the section.
C9_DistinctErrorKind ==
  TypeNotExpected
    => /\ fres.status = "thrown"
       /\ fres.err.where = fcaller.where
       /\ fres.err.kind \notin OtherErrorKinds

\* C9 (amended): when a grammar succeeds and the type is not expected,
\* parseFormat throws FileParseError, the class of the format-parse and
\* section-size errors too, with the message "Invalid format type for "
\* followed by the section's name, a message no other error carries.
C9_InvalidTypeError ==
  /\ TypeNotExpected
       => /\ fres.status = "thrown"
          /\ fres.err = [kind |-> "FileParseError", msg |-> "Invalid format type for ",
                         where |-> fcaller.where]
  /\ (fres.status = "thrown" /\ HasSpec /\ ~TypeNotExpected)
       => fres.err.msg # "Invalid format type for "

\* C9 witness: "%FORMAT(20I8)" read for the charges, which expect E, F or G
C9_Witness ==
  /\ fline = Line_20I8
  /\ fcaller.where = "charges"
  /\ fres.status = "thrown"
  /\ fres.err.msg = "Invalid format type for "
  /\ fres.err.where = "charges"

-----------------------------------------------------------------------------
(* Properties of the residue assignment *)

ResiduesAssigned == amber.pc \in {"assigned", "deduced", "done"}

\* the residue pointers are start positions among the atoms: as many as
\* residues, the first is 1, each is above the one before and none is above
\* the atom count
WellFormedPointers ==
  LET p == amber.residue_pointers
  IN /\ amber.nres >= 1
     /\ Len(p) = amber.nres
     /\ p[1] = 1
     /\ \A i \in 1..Len(p) : p[i] <= amber.natoms
     /\ \A i \in 1..(Len(p) - 1) : p[i] < p[i + 1]

\* the residue, counted from 0, whose range holds the atom at 1-based
\* position pos: [p[i], p[i+1]), and [p[nres-1], natoms] for the last
ResidueOf(pos) ==
  LET p == amber.residue_pointers
  IN CHOOSE i \in 0..(Len(p) - 1) :
       /\ p[i + 1] <= pos
       /\ (i + 1 = Len(p) \/ pos < p[i + 2])

\* C4 as stated: after assignResidues over well-formed pointers, every atom
\* of residue i (counted from 0) has the residue id i and the label of
\* residue i
C4_ResidueIdFromZero ==
  (ResiduesAssigned /\ WellFormedPointers) =>
    \A pos \in 1..amber.natoms :
      /\ amber.atoms[pos].resid = ResidueOf(pos)
      /\ amber.atoms[pos].resname = amber.residue_labels[ResidueOf(pos) + 1]

\* C4, amended: after assignResidues over well-formed pointers, every atom
\* of residue i (counted from 0) has the residue id i + 1 and the label of
\* residue i; the last residue runs to the last atom
C4_ResidueAssignment ==
  (ResiduesAssigned /\ WellFormedPointers) =>
    \A pos \in 1..amber.natoms :
      /\ amber.atoms[pos].resid = ResidueOf(pos) + 1
      /\ amber.atoms[pos].resname = amber.residue_labels[ResidueOf(pos) + 1]

\* the example: pointers 1, 5, 9 over ten atoms were assigned, and the
\* atoms 1-4, 5-8, 9-10 carry the ids 1, 2, 3
C4_Witness ==
  /\ ResiduesAssigned
  /\ amber.natoms = 10
  /\ amber.residue_pointers = ExampleResiduePointers
  /\ [i \in 1..10 |-> amber.atoms[i].resid] = <<1, 1, 1, 1, 2, 2, 2, 2, 3, 3>>
  /\ amber.atoms[9].resname = "SER"

-----------------------------------------------------------------------------
(* Properties of the bond sections *)

\* how often the atom with 0-based index b stands in the neighbour list of
\* the atom with 0-based index a
Neighbour(a, b) ==
  Cardinality({k \in 1..Len(amber.atoms[a + 1].bonds) :
                 amber.atoms[a + 1].bonds[k] = amber.atoms[b + 1].id})

AtomIndices == 0..(Len(amber.atoms) - 1)

\* the atom index a value of a triplet stands for: the quotient v/3 (cut
\* towards zero) in a primary section, v - 1 in the extension list
IndexOf(kind, v) ==
  IF kind = "div3" THEN (IF v >= 0 THEN v \div 3 ELSE -((-v) \div 3))
  ELSE v - 1

\* the pairs of atom indices decoded so far
DecodedPairs == {<<IndexOf(r[1], r[2]), IndexOf(r[1], r[3])>> : r \in decoded.once}

\* every decoded pair of different atoms has exactly one entry on each side
OneEdgeEachWay ==
  \A p \in DecodedPairs :
    p[1] # p[2] => (Neighbour(p[1], p[2]) = 1 /\ Neighbour(p[2], p[1]) = 1)

\* every entry of a neighbour list comes from a decoded pair
EdgesAreDecoded ==
  \A a \in AtomIndices : \A b \in AtomIndices :
    Neighbour(a, b) > 0 => (<<a, b>> \in DecodedPairs \/ <<b, a>> \in DecodedPairs)

\* no atom has an entry for itself: a triplet whose two atom indices are
\* equal added none
NoEdgeFromEqualIndices == \A a \in AtomIndices : Neighbour(a, a) = 0

\* C5: after any sequence of bond sections from an empty model, a triplet
\* whose two atom indices are equal has added no edge, and every decoded
\* pair (a, b) with a # b has exactly one entry in each of the two
\* neighbour lists, however often it was decoded
C5_BondIdempotence ==
  amber.pc # "undefined" =>
    (OneEdgeEachWay /\ EdgesAreDecoded /\ NoEdgeFromEqualIndices)

-------------------------------------------------------------------\* C14: the neighbour entries are exactly those between the atoms that the
\* decoded values stand for, index v/3 for a value of a primary section and
\* index v - 1 for a value of the extension list, whatever the third value
\* of each triplet was; every such index is that of an atom of the model.
C14_BondIndexRules ==
  amber.pc # "undefined" =>
    /\ \A p \in DecodedPairs : p[1] \in AtomIndices /\ p[2] \in AtomIndices
    /\ \A a \in AtomIndices : \A b \in AtomIndices :
         Neighbour(a, b) > 0 <=> (<<a, b>> \in DecodedPairs \/ <<b, a>> \in DecodedPairs)

\* a primary section gave the values 0 and 3 (atoms 0 and 1) and the
\* extension list the values 1 and 3 (atoms 0 and 2)
C14_Witness ==
  /\ amber.pc = "scanning"
  /\ <<"div3", 0, 3>> \in decoded.once
  /\ <<"minus1", 1, 3>> \in decoded.once
  /\ Neighbour(0, 1) = 1 /\ Neighbour(0, 2) = 1 /\ Neighbour(1, 2) = 0

\* C18: in every state reached by parsing bond sections no atom has its own
\* id among its neighbours; a triplet of a primary section whose two values
\* differ and decode to one atom has added no entry.
C18_NoSelfBond ==
  amber.pc # "undefined" =>
    \A i \in 1..Len(amber.atoms) :
      \A k \in 1..Len(amber.atoms[i].bonds) : amber.atoms[i].bonds[k] # amber.atoms[i].id

----------
(* Properties of Amber::read *)

SizedTags ==
  { "ATOM_NAME", "CHARGE", "MASS", "RESIDUE_LABEL", "RESIDUE_POINTER",
    "BONDS_INC_HYDROGEN", "BONDS_WITHOUT_HYDROGEN", "AMOEBA_REGULAR_BOND_LIST" }

SizeErrors ==
  { "Error parsing atom names", "Error parsing charges from amber file",
    "Error parsing masses from amber file",
    "Error parsing residue labels from amber file",
    "Error parsing residue pointers from amber file",
    "Error parsing bonds in amber file", "Error parsing amoeba bonds in amber file" }

\* C6: when the block of a sized section holds a number of elements other
\* than the count POINTERS implies (the atom count, the residue count,
\* three times the bond count), read() has failed with the section's size
\* error and none of the three calls after the loop has run
C6_SectionCountEnforced ==
  (section.tag \in SizedTags /\ section.differs) =>
    /\ amber.pc = "thrown"
    /\ amber.err.msg \in SizeErrors
    /\ amber.calls = <<>>

\* C13: a step of read() over a line that is not a %FLAG line, or whose tag
\* none of the comparisons recognises (the steps of SkipLine, which alone
\* leave the section tag "skipped"), raises no error, calls no handler and
\* leaves the whole model as it was, with scanning still under way.
C13_UnrecognizedLineSkipped ==
  [][section'.tag = "skipped" =>
       (amber'.pc = "scanning" /\ amber' = amber /\ decoded' = decoded)]_vars

\* the atom records are those POINTERS declared: as many as natoms, with the
\* ids 1..natoms in order
AtomsAsDeclared ==
  /\ Len(amber.atoms) = amber.natoms
  /\ \A i \in 1..Len(amber.atoms) : amber.atoms[i].id = i

\* C15: in every state of read(), after any sequence of sections (a second
\* POINTERS included) and the calls after the loop, the atom records are as
\* many as the declared atom count natoms and carry the ids 1..natoms.
C15_AtomCountInvariant ==
  amber.pc \notin {"undefined", "aborted"} => AtomsAsDeclared

\* the three calls that follow the loop, in the order of the code
FinalCalls == <<"assignResidues", "deduceAtomicNumberFromMass", "setGroupConnectivity">>

Failed == {"thrown", "undefined", "aborted"}

\* C16: in every step of read(), the calls made after the loop are a prefix
\* of assignResidues, deduceAtomicNumberFromMass, setGroupConnectivity (each
\* at most once, in that order); none is made before the end of the file
\* was found; once the end was found no section is handled any more; and
\* nothing runs after a failure of the scan or of assignResidues.
C16_FinalizationOrder ==
  [][/\ Len(amber'.calls) <= Len(FinalCalls)
     /\ amber'.calls = SubSeq(FinalCalls, 1, Len(amber'.calls))
     /\ amber'.calls # <<>> => section'.tag = "end of file"
     /\ section.tag = "end of file" => (section' = section /\ decoded' = decoded)
     /\ amber.pc \notin Failed
     /\ amber'.pc \in Failed => amber'.calls = <<>>]_vars

\* a run that made the three calls over a model with atoms
C16_Witness ==
  /\ amber.pc = "done"
  /\ amber.calls = FinalCalls
  /\ section.tag = "end of file"
  /\ Len(amber.atoms) > 0

\* the step in which read() finds the end of the file and calls
\* assignResidues
EndOfFileStep == section.tag # "end of file" /\ section'.tag = "end of file"

\* C20: when the residue count is 0 and both residue arrays are empty, the
\* call of assignResidues returns normally, having read no entry of either
\* array (a read outside an empty array is the undefined outcome) and
\* leaving every atom as it was.
C20_NoResiduesNoWrap ==
  [][(/\ EndOfFileStep
      /\ amber.nres = 0
      /\ amber.residue_labels = <<>>
      /\ amber.residue_pointers = <<>>)
     => (amber'.pc = "assigned" /\ amber'.atoms = amber.atoms)]_vars

\* C19: no handler, and not assignResidues, ever indexes the pointer list,
\* the atoms or a residue array outside its bounds (the state "undefined" is
\* entered by exactly those accesses): a value out of range is refused with
\* an error.
C19_IndexSafety == amber.pc # "undefined"

\* the size errors of the sections that write to atoms
AtomSizeErrors ==
  { "Error parsing atom names", "Error parsing charges from amber file",
    "Error parsing masses from amber file",
    "Error parsing bonds in amber file", "Error parsing amoeba bonds in amber file" }

\* the step in which a handler of such a section failed its count check
CountCheckFailed ==
  /\ amber.pc = "scanning"
  /\ amber'.pc = "thrown"
  /\ amber'.err.msg \in AtomSizeErrors

\* C21: in a step in which ATOM_NAME, CHARGE, MASS, a primary bond section or
\* the extension bond list fails its element-count check, every atom (its
\* name, charge, mass and neighbours) is left exactly as it was before the
\* section was dispatched.
C21_CheckBeforeMutation ==
  [][CountCheckFailed => amber'.atoms = amber.atoms]_vars

\* a count check has failed over atoms that an earlier ATOM_NAME had named
C21_Witness ==
  /\ amber.pc = "thrown"
  /\ amber.err.msg \in AtomSizeErrors
  /\ section.differs
  /\ Len(amber.atoms) > 0
  /\ amber.atoms[1].name # Unset

====
